---- MODULE Spec2Model ----
(***************************************************************************)
(* Model of the 2D kinematics teaching tool's physics core                 *)
(* (src/src/physics): the PhysicsSimulator, the six PhysicsObject kinds    *)
(* and the constraint classes.                                             *)
(*                                                                         *)
(* Python floats are modelled as fixed-point numbers: the integer n stands *)
(* for the real n / Scale.  A product or a quotient of two such numbers is *)
(* rounded to the nearest unit, symmetrically around zero.                 *)
(***************************************************************************)
EXTENDS Integers, Sequences, FiniteSets, TLC

\* ------------------------------------------------------------------ bounds
MaxSteps == 2

\* the longest list of bodies the simulator is given
MaxObjects == 3

\* ------------------------------------------------------- fixed-point floats
Scale == 10 ^ 3

Abs(x) == IF x < 0 THEN -x ELSE x

Sgn(x) == IF x < 0 THEN -1 ELSE IF x > 0 THEN 1 ELSE 0

\* a / b rounded to the nearest integer, halves away from zero (b # 0)
RDiv(a, b) == Sgn(a) * Sgn(b) * ((2 * Abs(a) + Abs(b)) \div (2 * Abs(b)))

\* float product x * y
Mul(x, y) == RDiv(x * y, Scale)

\* float quotient x / y (the caller has excluded y = 0)
Div(x, y) == RDiv(x * Scale, y)

RECURSIVE SqrtSearch(_, _, _)
SqrtSearch(n, lo, hi) ==
    IF lo >= hi THEN lo
    ELSE LET mid == (lo + hi + 1) \div 2
         IN  IF mid * mid <= n THEN SqrtSearch(n, mid, hi)
                               ELSE SqrtSearch(n, lo, mid - 1)

\* the integer nearest to the square root of n, given its floor r
Nearest(n, r) == IF n - r * r > r THEN r + 1 ELSE r

Min2(a, b) == IF a <= b THEN a ELSE b

\* math.sqrt(n) of a fixed-point square, to the nearest unit
Sqrt(n) == Nearest(n, SqrtSearch(n, 0, Min2(n, 46340)))

\* math.sqrt(dx*dx + dy*dy) of two fixed-point numbers
Hypot(dx, dy) == Sqrt(dx * dx + dy * dy)

Min4(a, b, c, d) == Min2(Min2(a, b), Min2(c, d))

\* None, and a present value, of an attribute that may be None
None == << >>

Some(v) == << v >>

\* -------------------------------------------------------- physics objects
\* PhysicsObject.__init__ : the state every kind shares.  fixed and
\* no_collision are attributes the context menu adds; hasattr(obj, 'fixed')
\* and obj.fixed is FALSE while the attribute is absent.
PhysicsObject(kind, position, mass, velocity) ==
    [kind |-> kind, position |-> position, mass |-> mass,
     velocity |-> velocity, acceleration |-> <<0, 0>>,
     friction |-> 500, restitution |-> 700,
     fixed |-> FALSE, no_collision |-> FALSE,
     width |-> 0, height |-> 0, radius |-> 0, vertices |-> << >>]

Box(position, size, mass, velocity) ==
    [PhysicsObject("Box", position, mass, velocity)
        EXCEPT !.width = size[1], !.height = size[2]]

Circle(position, radius, mass, velocity) ==
    [PhysicsObject("Circle", position, mass, velocity) EXCEPT !.radius = radius]

Triangle(position, vertices, mass, velocity) ==
    [PhysicsObject("Triangle", position, mass, velocity)
        EXCEPT !.vertices = vertices]

\* Spring and Rope: the position is the midpoint of the two ends, mass 0
SpringBody(start_pos, end_pos, width) ==
    [PhysicsObject("Spring",
        <<RDiv(start_pos[1] + end_pos[1], 2), RDiv(start_pos[2] + end_pos[2], 2)>>,
        0, <<0, 0>>) EXCEPT !.width = width]

Rope(start_pos, end_pos, width) ==
    [PhysicsObject("Rope",
        <<RDiv(start_pos[1] + end_pos[1], 2), RDiv(start_pos[2] + end_pos[2], 2)>>,
        0, <<0, 0>>) EXCEPT !.width = width]

Ramp(position, width, height, friction) ==
    [PhysicsObject("Ramp", position, 0, <<0, 0>>)
        EXCEPT !.width = width, !.height = height, !.friction = friction,
               !.vertices = << <<0, 0>>, <<width, 0>>, <<0, height>> >>]

\* hasattr(obj, 'radius')
HasRadius(b) == b.kind = "Circle"

\* hasattr(obj, 'width') and hasattr(obj, 'height')
HasWidthHeight(b) == b.kind \in {"Box", "Ramp"}

\* faulty variant of IsFixed: the fixed attribute is never honoured
IsFixed_Never(b) == FALSE

\* hasattr(obj, 'fixed') and obj.fixed
IsFixed(b) == b.fixed

\* faulty variant of ObjUpdate: explicit Euler, the position is advanced with
\* the velocity the body had before the call
ObjUpdate_Explicit(b, dt) ==
    [b EXCEPT !.velocity = <<b.velocity[1] + Mul(b.acceleration[1], dt),
                             b.velocity[2] + Mul(b.acceleration[2], dt)>>,
              !.position = <<b.position[1] + Mul(b.velocity[1], dt),
                             b.position[2] + Mul(b.velocity[2], dt)>>]

\* PhysicsObject.update(dt): velocity first, then position with the new velocity
ObjUpdate(b, dt) ==
    LET vx == b.velocity[1] + Mul(b.acceleration[1], dt)
        vy == b.velocity[2] + Mul(b.acceleration[2], dt)
    IN  [b EXCEPT !.velocity = <<vx, vy>>,
                  !.position = <<b.position[1] + Mul(vx, dt),
                                 b.position[2] + Mul(vy, dt)>>]

\* the least and the greatest element of a set of numbers
SetMin(S) == CHOOSE m \in S : \A e \in S : m <= e

SetMax(S) == CHOOSE m \in S : \A e \in S : m >= e

\* (min_x, min_y, max_x, max_y) of the extents half_w, half_h around p
Around(p, half_w, half_h) ==
    <<p[1] - half_w, p[2] - half_h, p[1] + half_w, p[2] + half_h>>

\* Triangle.get_bounding_box over the absolute vertex coordinates xs, ys
Hull(xs, ys) == <<SetMin(xs), SetMin(ys), SetMax(xs), SetMax(ys)>>

\* faulty variant of BoxBoundingBox: the whole width and height on each side
BoxBoundingBox_FullSize(b) == Around(b.position, b.width, b.height)

\* Box.get_bounding_box: half the width and half the height around the centre
BoxBoundingBox(b) == Around(b.position, RDiv(b.width, 2), RDiv(b.height, 2))

\* get_bounding_box of each kind; Spring, Rope and Ramp do not override the
\* base class and answer (0, 0, 0, 0)
GetBoundingBox(b) ==
    CASE b.kind = "Box" -> BoxBoundingBox(b)
      [] b.kind = "Circle" ->
           Around(b.position, b.radius, b.radius)
      [] b.kind = "Triangle" ->
           Hull({b.position[1] + b.vertices[k][1] : k \in 1..3},
                {b.position[2] + b.vertices[k][2] : k \in 1..3})
      [] OTHER -> <<0, 0, 0, 0>>

\* ---------------------------------------------------------------- state
VARIABLES
    heap,                        \* every body created so far, by identity
    objects,                     \* simulator.objects: identities, in z-order
    constraints,                 \* simulator.constraints
    gravity,                     \* simulator.gravity
    simulation_time,             \* simulator.simulation_time
    is_running,                  \* simulator.is_running
    time_scale,                  \* simulator.time_scale
    last_update_time,            \* simulator.last_update_time (None or a time)
    collision_detection_enabled, \* simulator.collision_detection_enabled
    clock,                       \* what time.time() answers
    ret,                         \* what the last call returned
    raised,                      \* the exception the last call raised
    op,                          \* the operation performed last
    lifecycle,                   \* the last of start / stop / reset performed
    started_at,                  \* the time of a start() no update() has followed yet
    steps,                       \* number of physics steps performed
    args,                        \* the arguments of the last single call
    since_start                  \* physics steps since the view last started the simulation

vars == <<heap, objects, constraints, gravity, simulation_time, is_running,
          time_scale, last_update_time, collision_detection_enabled, clock,
          ret, raised, op, lifecycle, started_at, steps, args,
          since_start>>

simvars == <<gravity, simulation_time, is_running, time_scale,
             last_update_time, collision_detection_enabled>>

\* ------------------------------------------------------------ constraints
\* Constraint.__init__ and the fields of the five variants (unused fields 0)
Constraint(kind, o1, o2) ==
    [kind |-> kind, enabled |-> TRUE, object1 |-> o1, object2 |-> o2,
     position |-> <<0, 0>>, distance |-> 0, pivot_point |-> <<0, 0>>,
     distance1 |-> 0, distance2 |-> 0, k |-> 0, rest_length |-> 0,
     floor_y |-> 0, restitution |-> 0]

\* FixedPositionConstraint(object): position defaults to the object's own
FixedPositionConstraint(h, o) ==
    [Constraint("FixedPosition", o, o) EXCEPT !.position = h[o].position]

\* DistanceConstraint(object1, object2): distance defaults to the current one
DistanceConstraint(h, o1, o2) ==
    [Constraint("Distance", o1, o2) EXCEPT
        !.distance = Hypot(h[o2].position[1] - h[o1].position[1],
                           h[o2].position[2] - h[o1].position[2])]

\* PinJointConstraint(object1, object2): the pivot defaults to the midpoint
PinJointConstraint(h, o1, o2) ==
    LET pivot == <<RDiv(h[o1].position[1] + h[o2].position[1], 2),
                   RDiv(h[o1].position[2] + h[o2].position[2], 2)>>
    IN  [Constraint("PinJoint", o1, o2) EXCEPT
            !.pivot_point = pivot,
            !.distance1 = Hypot(h[o1].position[1] - pivot[1],
                                h[o1].position[2] - pivot[2]),
            !.distance2 = Hypot(h[o2].position[1] - pivot[1],
                                h[o2].position[2] - pivot[2])]

\* SpringConstraint(object1, object2, k, rest_length)
SpringConstraint(o1, o2, k, rest_length) ==
    [Constraint("Spring", o1, o2) EXCEPT !.k = k, !.rest_length = rest_length]

\* FloorConstraint(floor_y, restitution)
FloorConstraint(floor_y, restitution) ==
    [Constraint("Floor", 0, 0) EXCEPT
        !.floor_y = floor_y, !.restitution = restitution]

\* the heap h with the position of body k moved by s * (px, py)
Shift(h, k, s, px, py) ==
    [h EXCEPT ![k].position = <<@[1] + s * px, @[2] + s * py>>]

\* faulty variant of FixedPositionApply: the velocity is left as it is
FixedPositionApply_KeepsVelocity(h, c) ==
    IF c.enabled
    THEN [h EXCEPT ![c.object1].position = c.position]
    ELSE h

\* FixedPositionConstraint.apply
FixedPositionApply(h, c) ==
    IF c.enabled
    THEN [h EXCEPT ![c.object1].position = c.position,
                   ![c.object1].velocity = <<0, 0>>]
    ELSE h

\* faulty variant of DistanceShare: the first body takes the whole correction
DistanceShare_FirstOnly(h, c, correction_x, correction_y) ==
    Shift(h, c.object1, -1, correction_x, correction_y)

\* DistanceConstraint.apply, from the correction on: it is shared by the
\* ratio of the masses, whenever the masses do not sum to zero
DistanceShare(h, c, correction_x, correction_y) ==
    LET total_mass == h[c.object1].mass + h[c.object2].mass
        mass_ratio1 == Div(h[c.object2].mass, total_mass)
        mass_ratio2 == Div(h[c.object1].mass, total_mass)
    IN  IF total_mass > 0
        THEN Shift(Shift(h, c.object1, -1, Mul(correction_x, mass_ratio1),
                                           Mul(correction_y, mass_ratio1)),
                   c.object2, 1, Mul(correction_x, mass_ratio2),
                                 Mul(correction_y, mass_ratio2))
        ELSE h

\* DistanceConstraint.apply, from the current distance on
DistanceCorrect(h, c, dx, dy, current_distance) ==
    LET correction_factor == Div(c.distance - current_distance, current_distance)
    IN  IF current_distance = 0 THEN h
        ELSE DistanceShare(h, c, Mul(Mul(dx, correction_factor), 500),
                                 Mul(Mul(dy, correction_factor), 500))

\* DistanceConstraint.apply
DistanceApply(h, c) ==
    LET dx == h[c.object2].position[1] - h[c.object1].position[1]
        dy == h[c.object2].position[2] - h[c.object1].position[2]
    IN  IF ~c.enabled THEN h
        ELSE DistanceCorrect(h, c, dx, dy, Hypot(dx, dy))

\* PinJointConstraint.apply, from the current distances on: each body is put
\* at its initial distance from the pivot, in its current direction
PinJointPlace(h, c, rel1, rel2, d1, d2) ==
    IF d1 = 0 \/ d2 = 0 THEN h
    ELSE [h EXCEPT
            ![c.object1].position =
                <<c.pivot_point[1] + Mul(Div(rel1[1], d1), c.distance1),
                  c.pivot_point[2] + Mul(Div(rel1[2], d1), c.distance1)>>,
            ![c.object2].position =
                <<c.pivot_point[1] + Mul(Div(rel2[1], d2), c.distance2),
                  c.pivot_point[2] + Mul(Div(rel2[2], d2), c.distance2)>>]

\* the position p relative to the pivot
Relative(p, pivot_point) == <<p[1] - pivot_point[1], p[2] - pivot_point[2]>>

\* the length of the vector v
Norm(v) == Hypot(v[1], v[2])

\* faulty variant of PinJointApply: the enabled flag is not looked at
PinJointApply_Always(h, c) ==
    PinJointPlace(h, c,
        Relative(h[c.object1].position, c.pivot_point),
        Relative(h[c.object2].position, c.pivot_point),
        Norm(Relative(h[c.object1].position, c.pivot_point)),
        Norm(Relative(h[c.object2].position, c.pivot_point)))

\* PinJointConstraint.apply
PinJointApply(h, c) ==
    IF ~c.enabled THEN h
    ELSE PinJointPlace(h, c,
             Relative(h[c.object1].position, c.pivot_point),
             Relative(h[c.object2].position, c.pivot_point),
             Norm(Relative(h[c.object1].position, c.pivot_point)),
             Norm(Relative(h[c.object2].position, c.pivot_point)))

\* the velocity of body k gains s * force / mass when its mass is positive
Accelerate(h, k, s, force_x, force_y) ==
    IF h[k].mass > 0
    THEN [h EXCEPT ![k].velocity = <<@[1] + s * Div(force_x, h[k].mass),
                                     @[2] + s * Div(force_y, h[k].mass)>>]
    ELSE h

\* SpringConstraint.apply, from the distance on
SpringPull(h, c, dx, dy, distance) ==
    LET force_magnitude == Mul(c.k, distance - c.rest_length)
    IN  IF distance = 0 THEN h
        ELSE Accelerate(
                 Accelerate(h, c.object1, 1,
                            Div(Mul(force_magnitude, dx), distance),
                            Div(Mul(force_magnitude, dy), distance)),
                 c.object2, -1,
                 Div(Mul(force_magnitude, dx), distance),
                 Div(Mul(force_magnitude, dy), distance))

\* SpringConstraint.apply
SpringApply(h, c) ==
    LET dx == h[c.object2].position[1] - h[c.object1].position[1]
        dy == h[c.object2].position[2] - h[c.object1].position[2]
    IN  IF ~c.enabled THEN h
        ELSE SpringPull(h, c, dx, dy, Hypot(dx, dy))

\* What _update_physics' call constraint.apply() does to the bodies, and the
\* exception it raises: FloorConstraint.apply(self, objects) needs the object
\* list, which the simulator does not pass.
ConstraintApply(w, c) ==
    CASE c.kind = "FixedPosition" -> [w EXCEPT !.heap = FixedPositionApply(w.heap, c)]
      [] c.kind = "Distance"      -> [w EXCEPT !.heap = DistanceApply(w.heap, c)]
      [] c.kind = "PinJoint"      -> [w EXCEPT !.heap = PinJointApply(w.heap, c)]
      [] c.kind = "Spring"        -> [w EXCEPT !.heap = SpringApply(w.heap, c)]
      [] c.kind = "Floor"         -> [w EXCEPT !.exc = "TypeError"]

\* for constraint in self.constraints: constraint.apply()
RECURSIVE ApplyConstraints(_, _, _)
ApplyConstraints(w, cs, k) ==
    IF k > Len(cs) \/ w.exc # "none" THEN w
    ELSE ApplyConstraints(ConstraintApply(w, cs[k]), cs, k + 1)

\* ------------------------------------------------------ collision pipeline
\* the bounding boxes do not overlap
BoxesApart(box1, box2) ==
    box1[1] > box2[3] \/ box1[3] < box2[1] \/
    box1[2] > box2[4] \/ box1[4] < box2[2]

\* _check_collision: bounding boxes overlap, and for two circles the exact test
CheckCollision(b1, b2) ==
    LET dx == b2.position[1] - b1.position[1]
        dy == b2.position[2] - b1.position[2]
        min_distance == b1.radius + b2.radius
    IN  IF BoxesApart(GetBoundingBox(b1), GetBoundingBox(b2))
        THEN FALSE
        ELSE IF HasRadius(b1) /\ HasRadius(b2)
             THEN dx * dx + dy * dy <= min_distance * min_distance
             ELSE TRUE

\* faulty variant of BoxNormal: the axis of the least depth, pointing from
\* the second body to the first
BoxNormal_Reversed(box1, box2) ==
    LET min_depth == Min4(box2[3] - box1[1], box1[3] - box2[1],
                          box2[4] - box1[2], box1[4] - box2[2])
    IN  IF min_depth = box2[3] - box1[1] THEN <<Scale, 0>>
        ELSE IF min_depth = box1[3] - box2[1] THEN <<-Scale, 0>>
        ELSE IF min_depth = box2[4] - box1[2] THEN <<0, Scale>>
        ELSE <<0, -Scale>>

\* _get_collision_normal for two bodies with width and height: the direction
\* of the least penetration depth
BoxNormal(box1, box2) ==
    LET left_depth == box2[3] - box1[1]
        right_depth == box1[3] - box2[1]
        top_depth == box2[4] - box1[2]
        bottom_depth == box1[4] - box2[2]
        min_depth == Min4(box2[3] - box1[1], box1[3] - box2[1],
                          box2[4] - box1[2], box1[4] - box2[2])
    IN  IF min_depth = left_depth THEN <<-Scale, 0>>
        ELSE IF min_depth = right_depth THEN <<Scale, 0>>
        ELSE IF min_depth = top_depth THEN <<0, -Scale>>
        ELSE <<0, Scale>>

\* _get_collision_normal otherwise: along the line of the centres, and a
\* fixed axis when the centres coincide (distance < 0.0001)
CentreNormal(b1, b2, dx, dy, distance) ==
    IF distance * 10000 < Scale
    THEN IF b1.position[2] > b2.position[2] THEN <<0, Scale>>
         ELSE IF b1.position[2] < b2.position[2] THEN <<0, -Scale>>
         ELSE IF b1.position[1] < b2.position[1] THEN <<Scale, 0>>
         ELSE <<-Scale, 0>>
    ELSE <<Div(dx, distance), Div(dy, distance)>>

\* _get_collision_normal: a unit vector, as a pair of fixed-point numbers
GetCollisionNormal(b1, b2) ==
    LET dx == b2.position[1] - b1.position[1]
        dy == b2.position[2] - b1.position[2]
    IN  IF HasWidthHeight(b1) /\ HasWidthHeight(b2)
        THEN BoxNormal(GetBoundingBox(b1), GetBoundingBox(b2))
        ELSE CentreNormal(b1, b2, dx, dy, Hypot(dx, dy))

\* faulty variant of Impel: the impulse is not divided by the mass
Impel_Unweighted(h, k, s, nx, ny, impulse, m) ==
    [h EXCEPT ![k].velocity = <<@[1] + s * Mul(impulse, nx),
                                @[2] + s * Mul(impulse, ny)>>]

\* the velocity of body k gains s * impulse * n / m
Impel(h, k, s, nx, ny, impulse, m) ==
    [h EXCEPT ![k].velocity = <<@[1] + s * Div(Mul(impulse, nx), m),
                                @[2] + s * Div(Mul(impulse, ny), m)>>]

\* _resolve_collision, from the effective masses on (a fixed body counts as
\* mass 0, and a body of mass <= 0 is the immovable one of the pair)
ResolveImpulse(h, i, j, nx, ny, vn, m1, m2, restitution) ==
    LET reduced_mass == Div(Mul(m1, m2), m1 + m2)
    IN  IF vn > 0 THEN h
        ELSE IF m1 <= 0 /\ m2 <= 0 THEN h
        ELSE IF m1 <= 0
             THEN Impel(h, j, 1, nx, ny, Mul(Mul(-(Scale + restitution), vn), m2), m2)
        ELSE IF m2 <= 0
             THEN Impel(h, i, -1, nx, ny, Mul(Mul(-(Scale + restitution), vn), m1), m1)
        ELSE Impel(Impel(h, i, -1, nx, ny,
                         Mul(Mul(-(Scale + restitution), vn), reduced_mass), m1),
                   j, 1, nx, ny,
                   Mul(Mul(-(Scale + restitution), vn), reduced_mass), m2)

\* faulty variant of ResolveAlong: the restitution of the first body is used
ResolveAlong_FirstRestitution(h, i, j, n) ==
    LET vx == h[j].velocity[1] - h[i].velocity[1]
        vy == h[j].velocity[2] - h[i].velocity[2]
    IN  ResolveImpulse(h, i, j, n[1], n[2], Mul(vx, n[1]) + Mul(vy, n[2]),
                       IF IsFixed(h[i]) THEN 0 ELSE h[i].mass,
                       IF IsFixed(h[j]) THEN 0 ELSE h[j].mass,
                       h[i].restitution)

\* _resolve_collision, from the normal n on
ResolveAlong(h, i, j, n) ==
    LET vx == h[j].velocity[1] - h[i].velocity[1]
        vy == h[j].velocity[2] - h[i].velocity[2]
    IN  ResolveImpulse(h, i, j, n[1], n[2], Mul(vx, n[1]) + Mul(vy, n[2]),
                       IF IsFixed(h[i]) THEN 0 ELSE h[i].mass,
                       IF IsFixed(h[j]) THEN 0 ELSE h[j].mass,
                       Min2(h[i].restitution, h[j].restitution))

\* _resolve_collision on the bodies i and j of the heap h: the new heap
ResolveCollision(h, i, j) ==
    ResolveAlong(h, i, j, GetCollisionNormal(h[i], h[j]))

\* faulty variant of Overlap: half the penetration depth
Overlap_Halved(obj1, obj2, nx, ny) ==
    RDiv(obj1.radius + obj2.radius
           - Hypot(obj2.position[1] - obj1.position[1],
                   obj2.position[2] - obj1.position[2]), 2)

\* the estimated size of a body: its radius, else (width + height) / 4,
\* else 0.5
Size(obj) ==
    IF HasRadius(obj) THEN obj.radius
    ELSE IF HasWidthHeight(obj) THEN RDiv(obj.width + obj.height, 4)
    ELSE 500

\* the overlap of two bodies with width and height, on the axis of the normal
BoxOverlap(box1, box2, nx, ny) ==
    IF Abs(nx) > Abs(ny)
    THEN Min2(box2[3] - box1[1], box1[3] - box2[1])
    ELSE Min2(box2[4] - box1[2], box1[4] - box2[2])

\* the penetration depth _correct_position_overlap computes, by shape kinds
Overlap(obj1, obj2, nx, ny) ==
    IF HasRadius(obj1) /\ HasRadius(obj2)
    THEN obj1.radius + obj2.radius
           - Hypot(obj2.position[1] - obj1.position[1],
                   obj2.position[2] - obj1.position[2])
    ELSE IF HasWidthHeight(obj1) /\ HasWidthHeight(obj2)
         THEN BoxOverlap(GetBoundingBox(obj1), GetBoundingBox(obj2), nx, ny)
         ELSE Size(obj1) + Size(obj2)
                - Hypot(obj2.position[1] - obj1.position[1],
                        obj2.position[2] - obj1.position[2])

\* _correct_position_overlap, from the push on: the free body of a pair with
\* a fixed body takes it whole, else it is split by the ratio of the masses
Separate(w, i, j, nx, ny, correction) ==
    LET total_mass == w.heap[i].mass + w.heap[j].mass
        ratio1 == Div(w.heap[j].mass, total_mass)
        ratio2 == Div(w.heap[i].mass, total_mass)
    IN  IF IsFixed(w.heap[i])
        THEN [w EXCEPT !.heap = Shift(@, j, 1, Mul(nx, correction),
                                               Mul(ny, correction))]
        ELSE IF IsFixed(w.heap[j])
        THEN [w EXCEPT !.heap = Shift(@, i, -1, Mul(nx, correction),
                                                Mul(ny, correction))]
        ELSE IF total_mass = 0
        THEN [w EXCEPT !.exc = "ZeroDivisionError"]
        ELSE [w EXCEPT !.heap =
                Shift(Shift(@, i, -1, Mul(Mul(nx, correction), ratio1),
                                      Mul(Mul(ny, correction), ratio1)),
                      j, 1, Mul(Mul(nx, correction), ratio2),
                            Mul(Mul(ny, correction), ratio2))]

\* _correct_position_overlap, from the overlap on: correction = overlap * 1.01
CorrectBy(w, i, j, nx, ny, overlap) ==
    IF overlap <= 0 THEN w
    ELSE Separate(w, i, j, nx, ny, Mul(overlap, 1010))

\* _correct_position_overlap, from the normal n on
CorrectAlong(w, i, j, n) ==
    CorrectBy(w, i, j, n[1], n[2], Overlap(w.heap[i], w.heap[j], n[1], n[2]))

\* _correct_position_overlap on the bodies i and j of the world w (the heap
\* and the exception raised so far)
CorrectPositionOverlap(w, i, j) ==
    IF IsFixed(w.heap[i]) /\ IsFixed(w.heap[j]) THEN w
    ELSE CorrectAlong(w, i, j, GetCollisionNormal(w.heap[i], w.heap[j]))

\* faulty variant of CollidePair: only the no_collision flag of the second
\* body of the pair is looked at
CollidePair_SecondOnly(w, a, b) ==
    IF w.heap[b].no_collision THEN w
    ELSE IF CheckCollision(w.heap[a], w.heap[b])
         THEN CorrectPositionOverlap(
                  [w EXCEPT !.heap = ResolveCollision(w.heap, a, b)], a, b)
         ELSE w

\* the body of _handle_collisions' inner loop for the pair (objs[i], objs[j])
CollidePair(w, a, b) ==
    IF w.heap[a].no_collision \/ w.heap[b].no_collision THEN w
    ELSE IF CheckCollision(w.heap[a], w.heap[b])
         THEN CorrectPositionOverlap(
                  [w EXCEPT !.heap = ResolveCollision(w.heap, a, b)], a, b)
         ELSE w

\* _handle_collisions: every pair i < j of the list, in order
RECURSIVE HandleCollisions(_, _, _, _)
HandleCollisions(w, objs, i, j) ==
    IF w.exc # "none" \/ i > Len(objs) THEN w
    ELSE IF j > Len(objs) THEN HandleCollisions(w, objs, i + 1, i + 2)
    ELSE HandleCollisions(CollidePair(w, objs[i], objs[j]), objs, i, j + 1)

\* ------------------------------------------------------------ physics step
\* faulty variant of ApplyGravity: the mass > 0 guard is missing
ApplyGravity_AnyMass(b, g) ==
    [b EXCEPT !.acceleration = <<b.acceleration[1] + g[1],
                                 b.acceleration[2] + g[2]>>]

\* faulty variant of ApplyGravity: the acceleration is set to the gravity
ApplyGravity_Recomputed(b, g) ==
    IF b.mass > 0 THEN [b EXCEPT !.acceleration = g] ELSE b

\* the gravity branch of _update_physics for one body
ApplyGravity(b, g) ==
    IF b.mass > 0
    THEN [b EXCEPT !.acceleration = <<b.acceleration[1] + g[1],
                                      b.acceleration[2] + g[2]>>]
    ELSE b

\* the first loop of _update_physics over self.objects
RECURSIVE IntegrateObjects(_, _, _, _, _)
IntegrateObjects(h, objs, g, dt, k) ==
    IF k > Len(objs) THEN h
    ELSE IF IsFixed(h[objs[k]])
         THEN IntegrateObjects(h, objs, g, dt, k + 1)
         ELSE IntegrateObjects(
                  [h EXCEPT ![objs[k]] = ObjUpdate(ApplyGravity(h[objs[k]], g), dt)],
                  objs, g, dt, k + 1)

\* the end of _update_physics: collisions, when detection is enabled
Collide(w, objs, cde) ==
    IF cde THEN HandleCollisions(w, objs, 1, 2) ELSE w

\* _update_physics(dt): integration, then the constraints, then collisions;
\* an exception ends the step where it is raised
UpdatePhysics(h, objs, cs, g, cde, dt) ==
    Collide(ApplyConstraints(
                [heap |-> IntegrateObjects(h, objs, g, dt, 1), exc |-> "none"],
                cs, 1),
            objs, cde)

\* ------------------------------------------------------------------ inputs
\* the bodies the object factory is asked for: one of each kind with the
\* factory's default sizes, placed so that they overlap
Catalogue ==
    { Box(<<0, 0>>, <<1000, 1000>>, 1000, <<0, 0>>),
      Circle(<<0, 900>>, 500, 1000, <<0, 0>>),
      Triangle(<<0, 0>>, << <<-500, 0>>, <<500, 0>>, <<0, 1000>> >>, 2000, <<0, 0>>),
      SpringBody(<<0, 0>>, <<1000, 0>>, 100),
      Rope(<<0, 0>>, <<0, 1000>>, 50),
      Ramp(<<0, 0>>, 2000, 1000, 500) }

\* the gravity vectors of the configuration file
Gravities == { <<0, -9800>>, <<1000, 2000>> }

\* the times time.time() answers: the clock advances from one to the next
Clocks == { 0, Scale \div 10, Scale \div 5 }

\* the constraint lists a caller builds over the two bodies: none, or one
\* constraint of one of the five variants
ConstraintLists(h) ==
    { << >>,
      << FixedPositionConstraint(h, 1) >>,
      << DistanceConstraint(h, 1, 2) >>,
      << PinJointConstraint(h, 1, 2) >>,
      << SpringConstraint(1, 2, 10000, 500) >>,
      << FloorConstraint(0, 500) >> }

\* ------------------------------------------------------------ the simulator
\* PhysicsSimulator.__init__, followed by the scene set-up: two bodies of
\* the catalogue added through add_object, a constraint list, and the
\* gravity read from the configuration
Init ==
    /\ \E a \in Catalogue, b \in Catalogue : heap = <<a, b>>
    /\ objects = <<1, 2>>
    /\ constraints \in ConstraintLists(heap)
    /\ gravity \in Gravities
    /\ simulation_time = 0
    /\ is_running = FALSE
    /\ time_scale = Scale
    /\ last_update_time = None
    /\ collision_detection_enabled = TRUE
    /\ clock = 0
    /\ ret = 0
    /\ raised = "none"
    /\ op = "init"
    /\ lifecycle = "none"
    /\ started_at = None
    /\ steps = 0
    /\ args = << >>
    /\ since_start = 0

\* time passes
Tick ==
    /\ \E t \in Clocks : t > clock
    /\ clock' = CHOOSE t \in Clocks : t > clock /\ \A u \in Clocks : u > clock => t <= u
    /\ UNCHANGED <<since_start, args, heap, objects, constraints, simvars, ret, raised, op,
                   lifecycle, started_at, steps>>

\* ObjectContextMenu.set_object_fixed(obj, fixed)
SetObjectFixed(id, fixed) ==
    /\ id \in 1..Len(heap)
    /\ heap' = [heap EXCEPT ![id] =
                  IF fixed
                  THEN [@ EXCEPT !.fixed = TRUE, !.velocity = <<0, 0>>,
                                 !.acceleration = <<0, 0>>]
                  ELSE [@ EXCEPT !.fixed = FALSE]]
    /\ op' = "call"
    /\ UNCHANGED <<since_start, args, objects, constraints, simvars, clock, ret, raised,
                   lifecycle, started_at, steps>>

\* faulty variant of Start: the time of the last update is kept
Start_KeepsClock ==
    /\ is_running' = TRUE
    /\ op' = "call"
    /\ lifecycle' = "start"
    /\ started_at' = Some(clock)
    /\ UNCHANGED <<since_start, args, heap, objects, constraints, gravity,
                   simulation_time, time_scale, last_update_time,
                   collision_detection_enabled, clock, ret, raised, steps>>

\* start()
Start ==
    /\ is_running' = TRUE
    /\ last_update_time' = Some(clock)
    /\ op' = "call"
    /\ lifecycle' = "start"
    /\ started_at' = Some(clock)
    /\ UNCHANGED <<since_start, args, heap, objects, constraints, gravity, simulation_time,
                   time_scale, collision_detection_enabled, clock, ret, raised,
                   steps>>

\* stop()
Stop ==
    /\ is_running' = FALSE
    /\ op' = "call"
    /\ lifecycle' = "stop"
    /\ UNCHANGED <<since_start, args, heap, objects, constraints, gravity, simulation_time,
                   time_scale, last_update_time, collision_detection_enabled,
                   clock, ret, raised, started_at, steps>>

\* faulty variant of Reset: the simulation keeps running
Reset_KeepsRunning ==
    /\ simulation_time' = 0
    /\ op' = "call"
    /\ lifecycle' = "reset"
    /\ UNCHANGED <<since_start, args, heap, objects, constraints, gravity, is_running, time_scale,
                   last_update_time, collision_detection_enabled, clock, ret,
                   raised, started_at, steps>>

\* reset()
Reset ==
    /\ simulation_time' = 0
    /\ is_running' = FALSE
    /\ op' = "call"
    /\ lifecycle' = "reset"
    /\ UNCHANGED <<since_start, args, heap, objects, constraints, gravity, time_scale,
                   last_update_time, collision_detection_enabled, clock, ret,
                   raised, started_at, steps>>

\* what update() leaves when the physics step ended in the world w: an
\* exception raised by the step leaves what the step had done so far, and
\* nothing is returned
Outcome(w, dt) ==
    /\ heap' = w.heap
    /\ raised' = w.exc
    /\ ret' = IF w.exc = "none" THEN dt ELSE ret

\* update() from dt on: simulation_time grows, then _update_physics(dt)
Step(dt) ==
    /\ simulation_time' = simulation_time + dt
    /\ Outcome(UpdatePhysics(heap, objects, constraints, gravity,
                             collision_detection_enabled, dt), dt)
    /\ steps' = steps + 1
    /\ since_start' = since_start + 1

\* faulty variant of Update: the is_running test is missing
Update_IgnoresRunning ==
    /\ op' = "update"
    /\ started_at' = None
    /\ last_update_time # None
    /\ steps < MaxSteps
    /\ last_update_time' = Some(clock)
    /\ Step(Mul(clock - last_update_time[1], time_scale))
    /\ UNCHANGED <<args, objects, constraints, gravity, is_running, time_scale,
                   collision_detection_enabled, clock, lifecycle>>

\* update(): nothing while stopped; the baseline when there is none; else
\* one physics step of dt = elapsed * time_scale
Update ==
    /\ op' = "update"
    /\ started_at' = None
    /\ IF ~is_running
       THEN /\ ret' = 0
            /\ raised' = "none"
            /\ UNCHANGED <<since_start, args, heap, simulation_time, last_update_time, steps>>
       ELSE IF last_update_time = None
       THEN /\ last_update_time' = Some(clock)
            /\ ret' = 0
            /\ raised' = "none"
            /\ UNCHANGED <<since_start, args, heap, simulation_time, steps>>
       ELSE /\ steps < MaxSteps
            /\ last_update_time' = Some(clock)
            /\ Step(Mul(clock - last_update_time[1], time_scale))
    /\ UNCHANGED <<args, objects, constraints, gravity, is_running, time_scale,
                   collision_detection_enabled, clock, lifecycle>>

Next ==
    \/ Tick
    \/ \E id \in 1..2 : SetObjectFixed(id, TRUE)
    \/ Start
    \/ Stop
    \/ Reset
    \/ Update

Spec == Init /\ [][Next]_vars

\* ----------------------------------------------- one collision pass, alone
\* the pairs of bodies the pass is tried on: two free circles (among them the
\* circles of radius 0.5 at (0,0) and (0,0.9)), and a fixed box with a free
\* body of positive mass, in both orders
CirclePairs ==
    { << [Circle(<<0, 0>>, 500, m1, v1) EXCEPT !.restitution = e],
         [Circle(p2, 500, m2, v2) EXCEPT !.restitution = 500] >> :
        m1 \in {1000, 3000}, m2 \in {1000},
        v1 \in { <<0, 0>>, <<0, 1000>> },
        v2 \in { <<0, 0>>, <<0, -1000>>, <<1000, 0>> },
        e \in {500, 700},
        p2 \in { <<0, 900>>, <<0, 0>>, <<300, 400>>, <<-600, 0>>,
                 <<600, 800>>, <<0, -1000>>, <<1200, 0>> } }

FixedBox == [Box(<<0, 0>>, <<1000, 1000>>, 1000, <<0, 0>>) EXCEPT !.fixed = TRUE]

FreeBodies ==
    { Circle(<<0, 900>>, 500, m, v) : m \in {1000, 2000},
        v \in { <<0, 0>>, <<0, -1000>>, <<-1000, 0>> } } \cup
    { Circle(<<0, 0>>, 500, 1000, v) : v \in { <<0, 0>>, <<0, -1000>> } } \cup
    { Box(p, <<1000, 1000>>, m, v) : p \in { <<800, 0>>, <<0, -600>>, <<100, 700>> },
        m \in {1000, 2000}, v \in { <<0, 0>>, <<0, -1000>>, <<-1000, 0>> } } \cup
    { Triangle(<<0, 300>>, << <<-500, 0>>, <<500, 0>>, <<0, 1000>> >>, 1000, v) :
        v \in { <<0, 0>>, <<0, -1000>> } }

FixedBoxPairs ==
    { <<FixedBox, f>> : f \in FreeBodies } \cup { <<f, FixedBox>> : f \in FreeBodies }

\* a simulator holding one pair, before _handle_collisions reaches it
PairInit ==
    /\ heap \in CirclePairs \cup FixedBoxPairs
    /\ objects = <<1, 2>>
    /\ constraints = << >>
    /\ gravity = <<0, -9800>>
    /\ simulation_time = 0
    /\ is_running = FALSE
    /\ time_scale = Scale
    /\ last_update_time = None
    /\ collision_detection_enabled = TRUE
    /\ clock = 0
    /\ ret = 0
    /\ raised = "none"
    /\ op = "init"
    /\ lifecycle = "none"
    /\ started_at = None
    /\ steps = 0
    /\ args = << >>
    /\ since_start = 0

\* the body of _handle_collisions for the pair: when _check_collision
\* answers true, _resolve_collision and then _correct_position_overlap
PairPass ==
    /\ op = "init"
    /\ CheckCollision(heap[1], heap[2])
    /\ LET w == CollidePair([heap |-> heap, exc |-> "none"], 1, 2)
       IN  /\ heap' = w.heap
           /\ raised' = w.exc
    /\ op' = "pass"
    /\ UNCHANGED <<since_start, args, objects, constraints, simvars, clock, ret, lifecycle,
                   started_at, steps>>

SpecPair == PairInit /\ [][PairPass]_vars

\* ------------------------------------------- single operations, on their own
\* FloorConstraint.apply for one body whose bounding-box bottom is min_y:
\* below the floor it is lifted by the penetration, its vertical velocity is
\* reversed and scaled by the restitution, then its horizontal velocity is
\* scaled by 1 - friction
FloorLift(b, c, min_y) ==
    IF min_y < c.floor_y
    THEN [b EXCEPT !.position = <<@[1], @[2] + (c.floor_y - min_y)>>,
                   !.velocity = <<Mul(@[1], Scale - b.friction),
                                  Mul(-@[2], c.restitution)>>]
    ELSE b

\* the loop of FloorConstraint.apply(objects) from the k-th body on
RECURSIVE FloorEach(_, _, _, _)
FloorEach(h, objs, c, k) ==
    IF k > Len(objs) THEN h
    ELSE FloorEach([h EXCEPT ![objs[k]] =
                       FloorLift(@, c, GetBoundingBox(h[objs[k]])[2])],
                   objs, c, k + 1)

\* FloorConstraint.apply(objects)
FloorApply(h, objs, c) ==
    IF ~c.enabled THEN h ELSE FloorEach(h, objs, c, 1)

\* a body constructed with an acceleration
WithAcceleration(b, acceleration) == [b EXCEPT !.acceleration = acceleration]

\* the bodies the single operations are tried on: one or more of each kind,
\* some of them below y = 0, some moving and accelerating
UnitBodies ==
    { WithAcceleration(Box(<<2000, 3000>>, <<1000, 1000>>, 1000, <<1000, -2000>>),
                       <<0, -9800>>),
      Box(<<2000, 1000>>, <<1000, 1000>>, 1000, <<0, 0>>),
      Box(<<0, 0>>, <<1000, 1000>>, 1000, <<1000, -2000>>),
      WithAcceleration(Circle(<<1200, 1600>>, 500, 1000, <<0, 1000>>),
                       <<1000, 2000>>),
      Circle(<<0, 200>>, 500, 2000, <<-1000, -1000>>),
      Triangle(<<0, -1000>>, << <<-500, 0>>, <<500, 0>>, <<0, 1000>> >>, 1000,
               <<500, -1000>>),
      Ramp(<<0, -1000>>, 2000, 1000, 500),
      SpringBody(<<0, 0>>, <<1000, 0>>, 100),
      Rope(<<0, -2000>>, <<0, 1000>>, 50) }

\* the time steps a body is advanced by
Dts == { 0, 100, 500 }

\* the constraint tried on a pair: DistanceConstraint(a, b, distance=1.0),
\* or a floor at y = 0 or at y = 1 with restitution 0.5
UnitConstraints(h) ==
    { << [DistanceConstraint(h, 1, 2) EXCEPT !.distance = 1000] >>,
      << FloorConstraint(0, 500) >>,
      << FloorConstraint(1000, 500) >> }

\* a fresh PhysicsSimulator: the fields __init__ sets, apart from the lists
NewSimulator ==
    /\ gravity = <<0, -9800>>
    /\ simulation_time = 0
    /\ is_running = FALSE
    /\ time_scale = Scale
    /\ last_update_time = None
    /\ collision_detection_enabled = TRUE
    /\ clock = 0
    /\ raised = "none"
    /\ lifecycle = "none"
    /\ started_at = None
    /\ steps = 0
    /\ args = << >>
    /\ since_start = 0

\* two bodies and one constraint, before any operation
UnitInit ==
    /\ \E a \in UnitBodies, b \in UnitBodies : heap = <<a, b>>
    /\ objects = <<1, 2>>
    /\ constraints \in UnitConstraints(heap)
    /\ op = "init"
    /\ ret = 0
    /\ NewSimulator

\* constraint.apply() on a DistanceConstraint
DistanceStep ==
    /\ op = "init"
    /\ constraints[1].kind = "Distance"
    /\ heap' = DistanceApply(heap, constraints[1])
    /\ op' = "distance"
    /\ UNCHANGED <<since_start, args, objects, constraints, simvars, clock, ret, raised,
                   lifecycle, started_at, steps>>

\* constraint.apply(objects) on a FloorConstraint
FloorStep ==
    /\ op = "init"
    /\ constraints[1].kind = "Floor"
    /\ heap' = FloorApply(heap, objects, constraints[1])
    /\ op' = "floor"
    /\ UNCHANGED <<since_start, args, objects, constraints, simvars, clock, ret, raised,
                   lifecycle, started_at, steps>>

\* obj.update(dt) on one body: args records the body and dt
AdvanceStep ==
    /\ op = "init"
    /\ \E k \in 1..2, dt \in Dts :
          /\ heap' = [heap EXCEPT ![k] = ObjUpdate(@, dt)]
          /\ args' = <<k, dt>>
    /\ op' = "advance"
    /\ UNCHANGED <<since_start, objects, constraints, simvars, clock, ret, raised,
                   lifecycle, started_at, steps>>

UnitNext ==
    \/ DistanceStep
    \/ FloorStep
    \/ AdvanceStep

SpecUnit == UnitInit /\ [][UnitNext]_vars

\* ------------------------------------------------------------ point queries
\* Box.contains_point
BoxContains(b, x, y) ==
    /\ Abs(x - b.position[1]) <= RDiv(b.width, 2)
    /\ Abs(y - b.position[2]) <= RDiv(b.height, 2)

\* Circle.contains_point
CircleContains(b, x, y) ==
    Mul(x - b.position[1], x - b.position[1])
      + Mul(y - b.position[2], y - b.position[2]) <= Mul(b.radius, b.radius)

\* the k-th vertex of a triangle, in absolute coordinates
Vertex(b, k) ==
    <<b.position[1] + b.vertices[k][1], b.position[2] + b.vertices[k][2]>>

\* the signed area Triangle.contains_point computes from the vertices
SignedArea(p0, p1, p2) ==
    Mul(500, Mul(-p1[2], p2[1]) + Mul(p0[2], -p1[1] + p2[1])
               + Mul(p0[1], p1[2] - p2[2]) + Mul(p1[1], p2[2]))

\* the barycentric coordinates s and t of (x, y), given 1 / (2 * area)
BaryS(p0, p1, p2, x, y, inv) ==
    Mul(inv, Mul(p0[2], p2[1]) - Mul(p0[1], p2[2])
               + Mul(p2[2] - p0[2], x) + Mul(p0[1] - p2[1], y))

BaryT(p0, p1, p2, x, y, inv) ==
    Mul(inv, Mul(p0[1], p1[2]) - Mul(p0[2], p1[1])
               + Mul(p0[2] - p1[2], x) + Mul(p1[1] - p0[1], y))

\* s >= 0 and t >= 0 and 1 - s - t >= 0
InUnitSimplex(s, t) == s >= 0 /\ t >= 0 /\ Scale - s - t >= 0

\* Triangle.contains_point for a triangle of non-zero area
TriangleContains(b, x, y) ==
    InUnitSimplex(
        BaryS(Vertex(b, 1), Vertex(b, 2), Vertex(b, 3), x, y,
              Div(Scale, 2 * SignedArea(Vertex(b, 1), Vertex(b, 2), Vertex(b, 3)))),
        BaryT(Vertex(b, 1), Vertex(b, 2), Vertex(b, 3), x, y,
              Div(Scale, 2 * SignedArea(Vertex(b, 1), Vertex(b, 2), Vertex(b, 3)))))

\* Ramp.contains_point for the point (rel_x, rel_y) relative to the corner
RampContainsRel(b, rel_x, rel_y) ==
    IF rel_x < 0 \/ rel_x > b.width \/ rel_y < 0 \/ rel_y > b.height
    THEN FALSE
    ELSE rel_y <= Mul(b.height, Scale - Div(rel_x, b.width))

\* contains_point raises ZeroDivisionError: Triangle divides by 2 * area,
\* Ramp divides by its width once the point has passed the rectangle test
ContainsRaises(b, x, y) ==
    CASE b.kind = "Triangle" ->
           SignedArea(Vertex(b, 1), Vertex(b, 2), Vertex(b, 3)) = 0
      [] b.kind = "Ramp" ->
           /\ b.width = 0
           /\ x = b.position[1]
           /\ y - b.position[2] >= 0 /\ y - b.position[2] <= b.height
      [] OTHER -> FALSE

\* contains_point of each kind, when it returns; Spring and Rope do not
\* override the base class, which answers False
ContainsPoint(b, x, y) ==
    CASE b.kind = "Box" -> BoxContains(b, x, y)
      [] b.kind = "Circle" -> CircleContains(b, x, y)
      [] b.kind = "Triangle" -> TriangleContains(b, x, y)
      [] b.kind = "Ramp" -> RampContainsRel(b, x - b.position[1], y - b.position[2])
      [] OTHER -> FALSE

\* faulty variant of GetObjectAt: the body added first is preferred
RECURSIVE GetObjectAt_FirstAdded(_, _, _, _, _)
GetObjectAt_FirstAdded(h, objs, x, y, k) ==
    LET i == Len(objs) + 1 - k
    IN  IF k = 0 THEN [found |-> None, exc |-> "none"]
        ELSE IF ContainsRaises(h[objs[i]], x, y)
             THEN [found |-> None, exc |-> "ZeroDivisionError"]
        ELSE IF ContainsPoint(h[objs[i]], x, y)
             THEN [found |-> Some(objs[i]), exc |-> "none"]
        ELSE GetObjectAt_FirstAdded(h, objs, x, y, k - 1)

\* get_object_at(x, y): the loop over reversed(self.objects) from index k
\* down; found is the body returned (None when the loop ends), exc the
\* exception a contains_point raised
RECURSIVE GetObjectAt(_, _, _, _, _)
GetObjectAt(h, objs, x, y, k) ==
    IF k = 0 THEN [found |-> None, exc |-> "none"]
    ELSE IF ContainsRaises(h[objs[k]], x, y)
         THEN [found |-> None, exc |-> "ZeroDivisionError"]
    ELSE IF ContainsPoint(h[objs[k]], x, y)
         THEN [found |-> Some(objs[k]), exc |-> "none"]
    ELSE GetObjectAt(h, objs, x, y, k - 1)

\* the bodies queried: the catalogue, and two triangles of zero area (three
\* collinear vertices, three coincident vertices)
QueryBodies ==
    Catalogue \cup
    { Triangle(<<0, 0>>, << <<0, 0>>, <<1000, 0>>, <<2000, 0>> >>, 1000, <<0, 0>>),
      Triangle(<<3000, 3000>>, << <<0, 0>>, <<0, 0>>, <<0, 0>> >>, 1000, <<0, 0>>) }

\* the points queried
QueryPoints ==
    { <<0, 0>>, <<250, 250>>, <<0, 1200>>, <<1500, 250>>, <<-400, 500>>,
      <<5000, 5000>> }

\* three bodies added in order, before any query
QueryInit ==
    /\ \E a \in QueryBodies, b \in QueryBodies, c \in QueryBodies :
          heap = <<a, b, c>>
    /\ objects = <<1, 2, 3>>
    /\ constraints = << >>
    /\ op = "init"
    /\ ret = None
    /\ NewSimulator

\* what a call get_object_at(x, y) leaves: the body returned, or the
\* exception raised
Answer(q) ==
    /\ ret' = q.found
    /\ raised' = q.exc

\* get_object_at(x, y)
Query ==
    /\ op = "init"
    /\ \E p \in QueryPoints :
          /\ args' = p
          /\ Answer(GetObjectAt(heap, objects, p[1], p[2], Len(objects)))
    /\ op' = "query"
    /\ UNCHANGED <<since_start, heap, objects, constraints, simvars, clock, lifecycle,
                   started_at, steps>>

SpecQuery == QueryInit /\ [][Query]_vars

\* ------------------------------------------------ editing the list of bodies
\* isinstance(obj, PhysicsObject): the bodies are the identities of the heap
IsPhysicsObject(h, obj) == obj \in 1..Len(h)

\* an argument that is no PhysicsObject (a number, None)
NotABody == 0

\* the values add_object and remove_object return (bool is a subclass of
\* int: True == 1 and False == 0)
True == 1

False == 0

\* obj in self.objects
ListContains(s, x) == \E i \in 1..Len(s) : s[i] = x

\* faulty variant of ListRemove: the last occurrence is taken out
RECURSIVE ListRemove_Last(_, _)
ListRemove_Last(s, x) ==
    IF s = << >> THEN s
    ELSE IF s[Len(s)] = x THEN SubSeq(s, 1, Len(s) - 1)
    ELSE Append(ListRemove_Last(SubSeq(s, 1, Len(s) - 1), x), s[Len(s)])

\* list.remove(x): the first occurrence of x is taken out
RECURSIVE ListRemove(_, _)
ListRemove(s, x) ==
    IF s = << >> THEN s
    ELSE IF Head(s) = x THEN Tail(s)
    ELSE <<Head(s)>> \o ListRemove(Tail(s), x)

\* add_object(obj)
AddObject(obj) ==
    /\ IF IsPhysicsObject(heap, obj)
       THEN /\ Len(objects) < MaxObjects
            /\ objects' = Append(objects, obj)
            /\ ret' = True
       ELSE /\ ret' = False
            /\ UNCHANGED objects
    /\ args' = <<obj>>
    /\ op' = "add"
    /\ UNCHANGED <<since_start, heap, constraints, simvars, clock, raised, lifecycle,
                   started_at, steps>>

\* remove_object(obj)
RemoveObject(obj) ==
    /\ IF ListContains(objects, obj)
       THEN /\ objects' = ListRemove(objects, obj)
            /\ ret' = True
       ELSE /\ ret' = False
            /\ UNCHANGED objects
    /\ args' = <<obj>>
    /\ op' = "remove"
    /\ UNCHANGED <<since_start, heap, constraints, simvars, clock, raised, lifecycle,
                   started_at, steps>>

\* clear_objects(): the list is emptied and the simulation time set to 0
ClearObjects ==
    /\ objects' = << >>
    /\ simulation_time' = 0
    /\ args' = << >>
    /\ op' = "clear"
    /\ UNCHANGED <<since_start, heap, constraints, gravity, is_running, time_scale,
                   last_update_time, collision_detection_enabled, clock, ret,
                   raised, lifecycle, started_at, steps>>

\* the scenes the list is edited in: a box moving to the right and a circle
\* or a second box away from it
EditBodies ==
    { << Box(<<0, 0>>, <<1000, 1000>>, 1000, <<1000, 0>>),
         Circle(<<3000, 0>>, 500, 1000, <<0, 0>>) >>,
      << Box(<<0, 0>>, <<1000, 1000>>, 1000, <<1000, 0>>),
         Box(<<0, 3000>>, <<1000, 1000>>, 2000, <<0, 0>>) >> }

\* the constraints of those scenes: none, the first body held in place, or
\* a spring between the two
EditConstraints(h) ==
    { << >>,
      << FixedPositionConstraint(h, 1) >>,
      << SpringConstraint(1, 2, 1000, 2000) >> }

\* what a caller passes to add_object and remove_object
EditArgs == { NotABody, 1, 2 }

\* a simulator with both bodies added and the constraints created
EditInit ==
    /\ heap \in EditBodies
    /\ objects = <<1, 2>>
    /\ constraints \in EditConstraints(heap)
    /\ op = "init"
    /\ ret = 0
    /\ NewSimulator

AddStep == \E obj \in EditArgs : AddObject(obj)

RemoveStep == \E obj \in EditArgs : RemoveObject(obj)

\* the list is edited, in any order
EditNext ==
    \/ AddStep
    \/ RemoveStep
    \/ ClearObjects

SpecEdit == EditInit /\ [][EditNext]_vars

\* bodies are taken out of a simulation that is started and updated
RemovedNext ==
    \/ RemoveStep
    \/ ClearObjects
    \/ Tick
    \/ Start
    \/ Update

SpecRemoved == EditInit /\ [][RemovedNext]_vars

\* ------------------------------------------- the simulation view's controls
\* the loop of toggle_simulation(True): the acceleration of every body of
\* the list with a positive mass is cleared
ClearAccelerations(h, objs) ==
    [k \in DOMAIN h |->
        IF ListContains(objs, k) /\ h[k].mass > 0
        THEN [h[k] EXCEPT !.acceleration = <<0, 0>>]
        ELSE h[k]]

\* the loop of reset_simulation: velocity and acceleration of every body of
\* the list are cleared
ClearMotion(h, objs) ==
    [k \in DOMAIN h |->
        IF ListContains(objs, k)
        THEN [h[k] EXCEPT !.velocity = <<0, 0>>, !.acceleration = <<0, 0>>]
        ELSE h[k]]

\* SimulationView.toggle_simulation(running): the accelerations are cleared
\* and the simulator started, or the simulator is stopped
ToggleSimulation(running) ==
    /\ IF running
       THEN /\ heap' = ClearAccelerations(heap, objects)
            /\ is_running' = TRUE
            /\ last_update_time' = Some(clock)
            /\ lifecycle' = "start"
            /\ started_at' = Some(clock)
            /\ since_start' = 0
       ELSE /\ is_running' = FALSE
            /\ lifecycle' = "stop"
            /\ UNCHANGED <<heap, last_update_time, started_at, since_start>>
    /\ op' = "call"
    /\ UNCHANGED <<args, objects, constraints, gravity, simulation_time,
                   time_scale, collision_detection_enabled, clock, ret, raised,
                   steps>>

\* SimulationView.reset_simulation: simulator.reset(), then the bodies' motion
\* is cleared
ResetSimulation ==
    /\ simulation_time' = 0
    /\ is_running' = FALSE
    /\ heap' = ClearMotion(heap, objects)
    /\ op' = "call"
    /\ lifecycle' = "reset"
    /\ UNCHANGED <<since_start, args, objects, constraints, gravity, time_scale,
                   last_update_time, collision_detection_enabled, clock, ret,
                   raised, started_at, steps>>

\* the bodies of the view's scenes: a box still carrying the acceleration of
\* an earlier run, a circle, a triangle and a massless rope
ViewBodies ==
    { WithAcceleration(Box(<<0, 0>>, <<1000, 1000>>, 1000, <<0, 0>>),
                       <<0, -19600>>),
      Circle(<<0, 900>>, 500, 1000, <<0, 0>>),
      Triangle(<<0, 0>>, << <<-500, 0>>, <<500, 0>>, <<0, 1000>> >>, 2000, <<0, 0>>),
      Rope(<<0, 0>>, <<0, 1000>>, 50) }

\* the constraint lists of the view's scenes
ViewConstraints(h) ==
    { << >>,
      << FixedPositionConstraint(h, 1) >>,
      << SpringConstraint(1, 2, 10000, 500) >> }

\* a scene of two of those bodies, before the view has started it
ViewInit ==
    /\ \E a \in ViewBodies, b \in ViewBodies : heap = <<a, b>>
    /\ objects = <<1, 2>>
    /\ constraints \in ViewConstraints(heap)
    /\ gravity \in Gravities
    /\ simulation_time = 0
    /\ is_running = FALSE
    /\ time_scale = Scale
    /\ last_update_time = None
    /\ collision_detection_enabled = TRUE
    /\ clock = 0
    /\ ret = 0
    /\ raised = "none"
    /\ op = "init"
    /\ lifecycle = "none"
    /\ started_at = None
    /\ steps = 0
    /\ args = << >>
    /\ since_start = 0

ViewNext ==
    \/ Tick
    \/ \E id \in 1..2 : SetObjectFixed(id, TRUE)
    \/ \E running \in BOOLEAN : ToggleSimulation(running)
    \/ ResetSimulation
    \/ Update

SpecView == ViewInit /\ [][ViewNext]_vars

\* ------------------------------------------------ one colliding pair, alone
\* two boxes, the first 1 x 1 or 2 x 1 at the origin, free or fixed at rest,
\* the second beside, below, above or on it, of the same or a smaller size
BoxPairs ==
    { << [Box(<<0, 0>>, s1, m1, IF f1 THEN <<0, 0>> ELSE v1)
             EXCEPT !.fixed = f1, !.restitution = e],
         Box(p2, s2, 1000, v2) >> :
        s1 \in { <<1000, 1000>>, <<2000, 1000>> },
        m1 \in {1000, 3000},
        f1 \in BOOLEAN,
        e \in {500, 900},
        v1 \in { <<0, 0>>, <<1000, 500>> },
        v2 \in { <<0, 0>>, <<-1000, 0>>, <<0, -1000>> },
        p2 \in { <<800, 0>>, <<0, -600>>, <<100, 700>>, <<0, 0>>, <<-900, 200>> },
        s2 \in { <<1000, 1000>>, <<600, 400>> } }

\* a free body of positive mass with a massless rope or ramp
MasslessPairs ==
    { << Circle(<<0, 0>>, 500, 1000, v), Rope(<<0, -200>>, <<0, 200>>, 50) >> :
        v \in { <<0, 0>>, <<0, 1000>>, <<0, -1000>> } } \cup
    { << Ramp(<<0, 0>>, 2000, 1000, 500), Box(<<200, 100>>, <<1000, 1000>>, 1000, v) >> :
        v \in { <<0, 0>>, <<-1000, -1000>>, <<1000, 0>> } }

\* a simulator holding one pair, before _handle_collisions reaches it
ResolveInit ==
    /\ heap \in CirclePairs \cup FixedBoxPairs \cup BoxPairs \cup MasslessPairs
    /\ objects = <<1, 2>>
    /\ constraints = << >>
    /\ op = "init"
    /\ ret = 0
    /\ NewSimulator

\* _resolve_collision(obj1, obj2), called for a pair _check_collision accepts
Resolve ==
    /\ op = "init"
    /\ CheckCollision(heap[1], heap[2])
    /\ heap' = ResolveCollision(heap, 1, 2)
    /\ op' = "resolve"
    /\ UNCHANGED <<since_start, args, objects, constraints, simvars, clock, ret,
                   raised, lifecycle, started_at, steps>>

ResolveNext ==
    \/ Resolve
    \/ PairPass

SpecResolve == ResolveInit /\ [][ResolveNext]_vars

\* ------------------------------------------------------ the simulated time
\* the factors set_time_scale is called with
TimeScales == { Scale \div 2, Scale, 2 * Scale }

\* SimulationView.set_time_scale(scale)
SetTimeScale(scale) ==
    /\ scale # time_scale
    /\ time_scale' = scale
    /\ op' = "call"
    /\ UNCHANGED <<since_start, args, heap, objects, constraints, gravity,
                   simulation_time, is_running, last_update_time,
                   collision_detection_enabled, clock, ret, raised, lifecycle,
                   started_at, steps>>

\* the constraint lists of the timed scenes: none, or a floor
TimedConstraints == { << >>, << FloorConstraint(0, 500) >> }

\* a scene of two bodies, before the simulation is started
TimedInit ==
    /\ heap \in EditBodies
    /\ objects = <<1, 2>>
    /\ constraints \in TimedConstraints
    /\ op = "init"
    /\ ret = 0
    /\ NewSimulator

TimedNext ==
    \/ Tick
    \/ Start
    \/ Stop
    \/ Reset
    \/ ClearObjects
    \/ \E scale \in TimeScales : SetTimeScale(scale)
    \/ Update

SpecTime == TimedInit /\ [][TimedNext]_vars

\* --------------------------------------------- bodies taken out of collisions
\* ObjectContextMenu.set_object_collision(obj, enabled)
SetObjectCollision(id, enabled) ==
    /\ id \in 1..Len(heap)
    /\ heap[id].no_collision = enabled
    /\ heap' = [heap EXCEPT ![id].no_collision = ~enabled]
    /\ op' = "call"
    /\ UNCHANGED <<since_start, args, objects, constraints, simvars, clock, ret,
                   raised, lifecycle, started_at, steps>>

\* three bodies that overlap one another, in any order
OverlappingBodies ==
    { Box(<<0, 0>>, <<1000, 1000>>, 1000, <<0, 0>>),
      Circle(<<0, 400>>, 500, 1000, <<0, -1000>>),
      Box(<<300, 200>>, <<1000, 1000>>, 2000, <<0, 0>>) }

\* a scene of three such bodies, all of them colliding so far
OverlapInit ==
    /\ \E a \in OverlappingBodies, b \in OverlappingBodies,
          c \in OverlappingBodies : heap = <<a, b, c>>
    /\ objects = <<1, 2, 3>>
    /\ constraints = << >>
    /\ op = "init"
    /\ ret = 0
    /\ NewSimulator

OverlapNext ==
    \/ \E id \in 1..3, enabled \in BOOLEAN : SetObjectCollision(id, enabled)
    \/ Tick
    \/ Start
    \/ Update

SpecOverlap == OverlapInit /\ [][OverlapNext]_vars

\* ------------------------------------------- constraints switched on and off
\* Constraint.enable() on the k-th constraint of the list
EnableConstraint(k) ==
    /\ k \in DOMAIN constraints
    /\ ~constraints[k].enabled
    /\ constraints' = [constraints EXCEPT ![k].enabled = TRUE]
    /\ op' = "enable"
    /\ UNCHANGED <<since_start, args, heap, objects, simvars, clock, ret, raised,
                   lifecycle, started_at, steps>>

\* Constraint.disable() on the k-th constraint of the list
DisableConstraint(k) ==
    /\ k \in DOMAIN constraints
    /\ constraints[k].enabled
    /\ constraints' = [constraints EXCEPT ![k].enabled = FALSE]
    /\ op' = "disable"
    /\ UNCHANGED <<since_start, args, heap, objects, simvars, clock, ret, raised,
                   lifecycle, started_at, steps>>

\* constraint.apply(objects) on the k-th constraint, a FloorConstraint, with
\* the simulator's bodies
ApplyFloor(k) ==
    /\ k \in DOMAIN constraints
    /\ constraints[k].kind = "Floor"
    /\ heap' = FloorApply(heap, objects, constraints[k])
    /\ op' = "floor"
    /\ UNCHANGED <<since_start, args, objects, constraints, simvars, clock, ret,
                   raised, lifecycle, started_at, steps>>

\* the constraint lists that are switched: the five variants, alone or two
\* of them together
SwitchedLists(h) ==
    { << FixedPositionConstraint(h, 1), SpringConstraint(1, 2, 1000, 2000) >>,
      << [DistanceConstraint(h, 1, 2) EXCEPT !.distance = 2000],
         FixedPositionConstraint(h, 2) >>,
      << PinJointConstraint(h, 1, 2) >>,
      << FloorConstraint(1000, 500) >> }

\* a scene of two bodies with its constraints, all enabled
SwitchedInit ==
    /\ heap \in EditBodies
    /\ objects = <<1, 2>>
    /\ constraints \in SwitchedLists(heap)
    /\ op = "init"
    /\ ret = 0
    /\ NewSimulator

SwitchedNext ==
    \/ \E k \in 1..2 : EnableConstraint(k)
    \/ \E k \in 1..2 : DisableConstraint(k)
    \/ \E k \in 1..2 : ApplyFloor(k)
    \/ Tick
    \/ Start
    \/ Update

SpecSwitch == SwitchedInit /\ [][SwitchedNext]_vars

\* ------------------------------------------------------- the object factory
\* the vertices ObjectFactory.add_triangle hands to the Triangle it creates
\* at position, of size (width, height)
FactoryVertices(position, size) ==
    LET half_width == RDiv(size[1], 2)
    IN  << <<position[1] - half_width, position[2]>>,
           <<position[1] + half_width, position[2]>>,
           <<position[1], position[2] + size[2]>> >>

\* the positions and the sizes triangles are created with
FactoryPositions == { <<0, 0>>, <<2000, 1000>>, <<-1000, 3000>> }

FactorySizes == { <<Scale, Scale>>, <<2 * Scale, Scale>> }

\* how far above a position the point asked for lies
JustAbove == Scale \div 10

\* ObjectFactory.add_triangle(position, size): the Triangle is created with
\* the default mass 1.0 at rest, added to the simulator and returned
AddTriangle(position, size) ==
    /\ Len(objects) < MaxObjects
    /\ heap' = Append(heap, Triangle(position, FactoryVertices(position, size),
                                     Scale, <<0, 0>>))
    /\ objects' = Append(objects, Len(heap) + 1)
    /\ ret' = Some(Len(heap) + 1)
    /\ args' = <<position[1], position[2], size[1], size[2]>>
    /\ op' = "add_triangle"
    /\ UNCHANGED <<since_start, constraints, simvars, clock, raised, lifecycle,
                   started_at, steps>>

\* get_object_at(x, y) at the point just above a position
QueryAbove(position) ==
    /\ args' = <<position[1], position[2] + JustAbove>>
    /\ Answer(GetObjectAt(heap, objects, position[1], position[2] + JustAbove,
                          Len(objects)))
    /\ op' = "query"
    /\ UNCHANGED <<since_start, heap, objects, constraints, simvars, clock,
                   lifecycle, started_at, steps>>

\* a fresh simulator and its factory, nothing created yet
FactoryInit ==
    /\ heap = << >>
    /\ objects = << >>
    /\ constraints = << >>
    /\ op = "init"
    /\ ret = None
    /\ NewSimulator

AddTriangleStep == \E p \in FactoryPositions, s \in FactorySizes : AddTriangle(p, s)

QueryAboveStep == \E p \in FactoryPositions : QueryAbove(p)

FactoryNext ==
    \/ AddTriangleStep
    \/ QueryAboveStep

SpecFactory == FactoryInit /\ [][FactoryNext]_vars

\* ------------------------------------------------------------------ claims
\* the bodies of the simulator's list
Ids == 1..Len(heap)

\* C1: the first update() after start() returns 0, changes no body and
\* leaves simulation_time alone, whatever time has passed since start().
C1_FirstUpdateIsNoOp ==
    [][(is_running /\ started_at # None /\ Update)
         => (ret' = 0 /\ heap' = heap /\ simulation_time' = simulation_time)]_vars

\* C1 witness: the first update() after start(), some time after it, has
\* run a physics step: it returned that time, added it to simulation_time
\* and set a body moving
C1_Witness ==
    /\ op = "update" /\ steps = 1 /\ raised = "none"
    /\ ret > 0 /\ simulation_time = ret
    /\ \E i \in Ids : heap[i].velocity # <<0, 0>>

\* C2: update() never raises, whatever bodies the list holds (no constraint
\* is involved).
C2_UpdateNeverRaises == constraints = << >> => raised = "none"

\* C3: a fixed body is never moved by an update().
C3_FixedNeverMoved ==
    [][Update => \A i \in Ids :
          heap[i].fixed => heap'[i].position = heap[i].position]_vars

\* C4: a fixed body at rest (velocity and acceleration (0,0)) is still at
\* rest after an update().
C4_FixedStaysAtRest ==
    [][Update => \A i \in Ids :
          (heap[i].fixed /\ heap[i].velocity = <<0, 0>>
                         /\ heap[i].acceleration = <<0, 0>>)
          => (heap'[i].velocity = <<0, 0>> /\ heap'[i].acceleration = <<0, 0>>)]_vars

\* C5: a non-fixed body of mass 0 is inert in collisions: with a free body
\* of positive mass as the other body (and no constraint in the list), an
\* update() changes neither its position nor its velocity.
C5_MasslessInert ==
    [][(Update /\ constraints = << >>) => \A i \in Ids, j \in Ids :
          (~heap[i].fixed /\ heap[i].mass = 0 /\ ~heap[j].fixed /\ heap[j].mass > 0)
          => (heap'[i].position = heap[i].position /\
              heap'[i].velocity = heap[i].velocity)]_vars

\* C6: an update() leaves the acceleration of every non-fixed body of mass 0
\* as it was, for every gravity vector.
C6_MasslessNoGravity ==
    [][Update => \A i \in Ids :
          (~heap[i].fixed /\ heap[i].mass = 0)
          => heap'[i].acceleration = heap[i].acceleration]_vars

\* C6 witness: a physics step has added gravity to a body of positive mass
\* next to a non-fixed body of mass 0
C6_Witness ==
    /\ op = "update" /\ steps >= 1
    /\ \E i \in Ids, j \in Ids :
          /\ ~heap[i].fixed /\ heap[i].mass = 0
          /\ heap[j].mass > 0 /\ heap[j].acceleration = gravity

\* C7: while is_running is False, update() returns 0 and changes nothing:
\* no body, not simulation_time, not the last-tick clock.
C7_StoppedUpdateIsNoOp ==
    [][(~is_running /\ Update)
         => (ret' = 0 /\ raised' = "none" /\ heap' = heap /\
             simulation_time' = simulation_time /\
             last_update_time' = last_update_time /\ steps' = steps)]_vars

\* C7 witness: update() was called after stop(), while time had passed since
\* the last tick and a free body was falling
C7_Witness ==
    /\ op = "update" /\ ~is_running /\ lifecycle = "stop" /\ ret = 0
    /\ last_update_time # None /\ clock > last_update_time[1]
    /\ \E i \in Ids : ~heap[i].fixed /\ heap[i].mass > 0 /\ heap[i].velocity # <<0, 0>>

\* C8: is_running is True exactly when the last of start/stop/reset was
\* start(); after reset() simulation_time is 0 and is_running False; and
\* start() sets the last-tick clock to the time of the call (until an
\* update() follows it, last_update_time is that time).
C8_Lifecycle ==
    /\ is_running <=> lifecycle = "start"
    /\ lifecycle = "reset" => (simulation_time = 0 /\ ~is_running)
    /\ started_at # None => last_update_time = started_at

\* C8 witness: start() was called again, after a step and some time
C8_Witness ==
    /\ op = "call" /\ lifecycle = "start" /\ is_running
    /\ started_at = Some(clock) /\ clock > 0 /\ steps >= 1

\* the two bodies of a pass are free circles of positive mass
FreeCircles ==
    /\ HasRadius(heap[1]) /\ HasRadius(heap[2])
    /\ ~heap[1].fixed /\ ~heap[2].fixed
    /\ heap[1].mass > 0 /\ heap[2].mass > 0

\* (v2 - v1) . n for the bodies a and b of the heap h
RelNormalVelocity(h, n) ==
    Mul(h[2].velocity[1] - h[1].velocity[1], n[1]) +
    Mul(h[2].velocity[2] - h[1].velocity[2], n[2])

\* C9: after one pass over two overlapping free circles of positive mass
\* the centres are at least r1 + r2 apart and the circles do not approach
\* each other along the normal.
C9_CirclesSeparated ==
    (op = "pass" /\ FreeCircles) =>
       /\ Hypot(heap[2].position[1] - heap[1].position[1],
                heap[2].position[2] - heap[1].position[2])
            >= heap[1].radius + heap[2].radius
       /\ RelNormalVelocity(heap, GetCollisionNormal(heap[1], heap[2])) >= 0

\* C9 witness: the circles of radius 0.5 at (0,0) and (0,0.9), at rest, after
\* the pass: pushed apart along the y axis
C9_Witness ==
    /\ op = "pass" /\ FreeCircles
    /\ heap[1].position[1] = 0 /\ heap[2].position[1] = 0
    /\ heap[1].position[2] < 0 /\ heap[2].position[2] > 900
    /\ heap[1].velocity = <<0, 0>> /\ heap[2].velocity = <<0, 0>>
    /\ heap[1].restitution = 500 /\ heap[2].restitution = 500

\* the body i of the pass is a fixed box at rest, the body j a free body of
\* positive mass
FixedBoxWith(h, i, j) ==
    /\ h[i].kind = "Box" /\ h[i].fixed /\ h[i].velocity = <<0, 0>>
    /\ ~h[j].fixed /\ h[j].mass > 0

\* the push along the normal n for the penetration depth overlap
PushBy(n, overlap) ==
    IF overlap > 0
    THEN <<Mul(n[1], Mul(overlap, 1010)), Mul(n[2], Mul(overlap, 1010))>>
    ELSE <<0, 0>>

\* the push along the normal n between the two bodies of h
PushAlong(h, n) == PushBy(n, Overlap(h[1], h[2], n[1], n[2]))

\* the push of the pass: the penetration depth * 1.01 along the normal
Push(h) == PushAlong(h, GetCollisionNormal(h[1], h[2]))

\* C10: a pass over a fixed box at rest and a free body of positive mass, in
\* either order, leaves the box as it was; the free body takes the whole
\* push, and the whole velocity change when the two were approaching.
C10_FixedBoxUnmoved ==
    [][PairPass =>
        /\ FixedBoxWith(heap, 1, 2) =>
             /\ heap'[1] = heap[1]
             /\ heap'[2].position = <<heap[2].position[1] + Push(heap)[1],
                                      heap[2].position[2] + Push(heap)[2]>>
             /\ RelNormalVelocity(heap, GetCollisionNormal(heap[1], heap[2])) < 0
                  => heap'[2].velocity # heap[2].velocity
        /\ FixedBoxWith(heap, 2, 1) =>
             /\ heap'[2] = heap[2]
             /\ heap'[1].position = <<heap[1].position[1] - Push(heap)[1],
                                      heap[1].position[2] - Push(heap)[2]>>
             /\ RelNormalVelocity(heap, GetCollisionNormal(heap[1], heap[2])) < 0
                  => heap'[1].velocity # heap[1].velocity]_vars

\* C10 witness: a circle that was falling onto the fixed box has bounced and
\* been pushed up, the box is where it was, at rest
C10_Witness ==
    /\ op = "pass"
    /\ \E i \in {1, 2}, j \in {1, 2} :
          /\ FixedBoxWith(heap, i, j)
          /\ heap[i].position = <<0, 0>>
          /\ heap[j].kind = "Circle" /\ heap[j].velocity[2] > 0
          /\ heap[j].position[2] > 900

\* the vector from body 1 to body 2 of the heap h, and its length
Separation(h) ==
    <<h[2].position[1] - h[1].position[1], h[2].position[2] - h[1].position[2]>>

Gap(h) == Norm(Separation(h))

\* the displacement of body k between the heaps h and g
Moved(h, g, k) ==
    <<g[k].position[1] - h[k].position[1], g[k].position[2] - h[k].position[2]>>

\* the case of C11: a distance constraint with target d on two bodies of
\* equal positive mass that are 2d apart
TwiceTheTarget ==
    /\ constraints[1].kind = "Distance"
    /\ heap[1].mass = heap[2].mass /\ heap[1].mass > 0
    /\ Gap(heap) = 2 * constraints[1].distance

C12_FloorLifts ==
    [][FloorStep => \A i \in Ids :
          IF GetBoundingBox(heap[i])[2] < constraints[1].floor_y
          THEN /\ GetBoundingBox(heap'[i])[2] = constraints[1].floor_y
               /\ heap'[i].velocity =
                    <<Mul(heap[i].velocity[1], Scale - heap[i].friction),
                      Mul(-heap[i].velocity[2], constraints[1].restitution)>>
          ELSE heap'[i] = heap[i]]_vars

\* C12 witness: the floor at y = 1 has been applied to a Ramp, a Spring or a
\* Rope: the body was lifted and its bounding-box bottom is still 0
C12_Witness ==
    /\ op = "floor"
    /\ constraints[1].floor_y = 1000
    /\ \E i \in Ids :
          /\ heap[i].kind \in {"Ramp", "Spring", "Rope"}
          /\ GetBoundingBox(heap[i])[2] = 0

\* one constraint applied as C13 has it: a FloorConstraint to the
\* simulator's bodies, the other variants by their apply()
ConstraintApplied(w, c, objs) ==
    IF c.kind = "Floor"
    THEN [w EXCEPT !.heap = FloorApply(@, objs, c)]
    ELSE ConstraintApply(w, c)

\* every constraint of the list cs applied once, in insertion order
RECURSIVE ConstraintsApplied(_, _, _, _)
ConstraintsApplied(w, cs, objs, k) ==
    IF k > Len(cs) THEN w
    ELSE ConstraintsApplied(ConstraintApplied(w, cs[k], objs), cs, objs, k + 1)

\* the bodies after a physics step of dt in which every constraint has been
\* applied once, in insertion order, between integration and collisions
StepWithConstraints(dt) ==
    Collide(ConstraintsApplied(
                [heap |-> IntegrateObjects(heap, objects, gravity, dt, 1),
                 exc |-> "none"],
                constraints, objects, 1),
            objects, collision_detection_enabled)

\* update() is about to perform a physics step
Stepping == is_running /\ last_update_time # None

\* C13: in every physics step each constraint of the list, of any of the
\* five variants, is applied once, in insertion order (a FloorConstraint to
\* the simulator's bodies), and applying the constraints never ends the step.
C13_ConstraintsApplied ==
    [][(Stepping /\ Update) =>
         /\ raised' # "TypeError"
         /\ raised' = "none" =>
              heap' = StepWithConstraints(
                          Mul(clock - last_update_time[1], time_scale)).heap]_vars

\* C13 witness: a step over a list holding a FloorConstraint has ended in
\* the TypeError of constraint.apply() called without the body list
C13_Witness ==
    /\ op = "update" /\ steps >= 1
    /\ Len(constraints) = 1 /\ constraints[1].kind = "Floor"
    /\ raised = "TypeError"

\* the indices of the body list whose body contains the point p
Hits(p) ==
    { k \in 1..Len(objects) :
        /\ ~ContainsRaises(heap[objects[k]], p[1], p[2])
        /\ ContainsPoint(heap[objects[k]], p[1], p[2]) }

\* the body added last among those containing p, None when there is none
Topmost(p) ==
    IF Hits(p) = {} THEN None ELSE Some(objects[SetMax(Hits(p))])

ZeroArea(b) ==
    /\ b.kind = "Triangle"
    /\ SignedArea(Vertex(b, 1), Vertex(b, 2), Vertex(b, 3)) = 0

\* C15: get_object_at over a scene holding a triangle of zero area
\* completes, and never answers that triangle: its contains_point is False
\* for every point, without raising.
C15_DegenerateTriangleFalse ==
    (op = "query" /\ \E i \in Ids : ZeroArea(heap[i])) =>
        /\ raised = "none"
        /\ \A i \in Ids : ZeroArea(heap[i]) => ret # Some(i)

\* C15 witness: a query reached the contains_point of a triangle of zero
\* area, which raised ZeroDivisionError
C15_Witness ==
    /\ op = "query"
    /\ raised = "ZeroDivisionError"
    /\ \E i \in Ids : ZeroArea(heap[i])

\* the absolute coordinates of the three vertices of a Triangle or a Ramp
Corners(b) ==
    { <<b.position[1] + b.vertices[k][1], b.position[2] + b.vertices[k][2]>> :
        k \in 1..3 }

\* bb is the smallest axis-aligned box holding the points of P
TightAround(bb, P) ==
    /\ \A p \in P : bb[1] <= p[1] /\ p[1] <= bb[3] /\ bb[2] <= p[2] /\ p[2] <= bb[4]
    /\ \E p \in P : p[1] = bb[1]
    /\ \E p \in P : p[2] = bb[2]
    /\ \E p \in P : p[1] = bb[3]
    /\ \E p \in P : p[2] = bb[4]

\* C16: the bounding box of every Triangle and of every Ramp is (min x, min y,
\* max x, max y) over position + vertex of its three vertices, wherever the
\* body is, before and after an operation has moved it
C16_VertexHull ==
    \A k \in 1..Len(heap) :
        heap[k].kind \in {"Triangle", "Ramp"} =>
            TightAround(GetBoundingBox(heap[k]), Corners(heap[k]))

\* C16: an operation has acted on a pair holding a Ramp and a Triangle, and
\* the Triangle is no longer where it was constructed
C16_Witness ==
    /\ op # "init"
    /\ \E k \in 1..2 : heap[k].kind = "Ramp"
    /\ \E k \in 1..2 : heap[k].kind = "Triangle" /\ heap[k].position # <<0, -1000>>

\* C17: the bounding box of every Box at (x, y) of size (w, h) is
\* (x - w/2, y - h/2, x + w/2, y + h/2), wherever the box is; the 1 x 1 box
\* at (2, 3) has (1.5, 2.5, 2.5, 3.5)
C17_BoxBoundingBox ==
    \A k \in 1..Len(heap) :
        heap[k].kind = "Box" =>
            /\ 2 * GetBoundingBox(heap[k])[1] = 2 * heap[k].position[1] - heap[k].width
            /\ 2 * GetBoundingBox(heap[k])[2] = 2 * heap[k].position[2] - heap[k].height
            /\ 2 * GetBoundingBox(heap[k])[3] = 2 * heap[k].position[1] + heap[k].width
            /\ 2 * GetBoundingBox(heap[k])[4] = 2 * heap[k].position[2] + heap[k].height
            /\ (heap[k].position = <<2000, 3000>> /\ heap[k].width = 1000
                  /\ heap[k].height = 1000
                => GetBoundingBox(heap[k]) = <<1500, 2500, 2500, 3500>>)

\* C17: a 1 x 1 box just created at (2, 3), beside a box an operation moved
C17_Witness ==
    /\ op # "init"
    /\ \E k \in 1..2 :
          /\ heap[k].kind = "Box"
          /\ heap[k].position = <<2000, 3000>>
          /\ heap[k].width = 1000 /\ heap[k].height = 1000
          /\ GetBoundingBox(heap[k]) = <<1500, 2500, 2500, 3500>>
    /\ \E k \in 1..2 :
          heap[k].kind = "Box" /\ heap[k].position \notin {<<2000, 3000>>, <<2000, 1000>>, <<0, 0>>}

\* the body b after update(dt), written out by components
Advanced(b, dt) ==
    [b EXCEPT !.velocity = <<b.velocity[1] + Mul(b.acceleration[1], dt),
                             b.velocity[2] + Mul(b.acceleration[2], dt)>>,
              !.position = <<b.position[1]
                               + Mul(b.velocity[1] + Mul(b.acceleration[1], dt), dt),
                             b.position[2]
                               + Mul(b.velocity[2] + Mul(b.acceleration[2], dt), dt)>>]

\* C20: update(dt) sets the velocity to v + a*dt and the position to
\* p + (v + a*dt)*dt, and changes nothing else of the body, no other body and
\* nothing of the simulator
C20_SemiImplicitEuler ==
    [][AdvanceStep =>
          /\ heap' = [heap EXCEPT ![args'[1]] = Advanced(@, args'[2])]
          /\ UNCHANGED <<objects, constraints, simvars>>]_vars

\* C20: a body with a non-zero acceleration and velocity was advanced by a
\* positive dt
C20_Witness ==
    /\ op = "advance"
    /\ args[2] > 0
    /\ heap[args[1]].acceleration[2] # 0
    /\ heap[args[1]].velocity[2] # 0

\* the list s without its element at position i
Without(s, i) == SubSeq(s, 1, i - 1) \o SubSeq(s, i + 1, Len(s))

\* C18: add_object(obj) returns True and appends obj at the end of the list
\* exactly when obj is a body, else returns False and leaves the list;
\* remove_object(obj) returns True exactly when obj is in the list, and then
\* takes its first occurrence out, the others keeping their order, else
\* returns False and leaves the list
C18_AddAndRemove ==
    [][/\ AddStep =>
            IF args'[1] \in DOMAIN heap
            THEN ret' = 1 /\ objects' = objects \o <<args'[1]>>
            ELSE ret' = 0 /\ objects' = objects
       /\ RemoveStep =>
            IF \E i \in DOMAIN objects : objects[i] = args'[1]
            THEN /\ ret' = 1
                 /\ \E i \in DOMAIN objects :
                       /\ objects[i] = args'[1]
                       /\ \A j \in 1..(i - 1) : objects[j] # args'[1]
                       /\ objects' = Without(objects, i)
            ELSE ret' = 0 /\ objects' = objects]_vars

\* C18: a body that had been added a second time was removed once, and the
\* two bodies left are in their order
C18_Witness ==
    /\ op = "remove"
    /\ ret = 1
    /\ objects = <<1, 2>>
    /\ args = <<2>>

\* the identities that are not in the list: each was taken out by
\* remove_object or clear_objects, all having been added at the start
Removed == { id \in DOMAIN heap : \A i \in DOMAIN objects : objects[i] # id }

\* an update() that performs a physics step
PhysicsStep == Update /\ steps' = steps + 1

\* C19: update() changes neither the position nor the velocity of a body
\* that was taken out of the simulator
C19_RemovedUntouched ==
    [][PhysicsStep =>
          \A id \in Removed :
              /\ heap'[id].position = heap[id].position
              /\ heap'[id].velocity = heap[id].velocity]_vars

\* C19: a physics step was performed while a body that a constraint refers
\* to was out of the list
C19_Witness ==
    /\ op = "update"
    /\ steps > 0
    /\ constraints # << >>
    /\ \E id \in Removed : id \in {constraints[1].object1, constraints[1].object2}

\* the dt of the physics step update() is about to perform
StepDt == Mul(clock - last_update_time[1], time_scale)

\* the world of a physics step of dt when its constraint loop has ended:
\* the bodies integrated, then every constraint applied
AfterConstraints(dt) ==
    ApplyConstraints([heap |-> IntegrateObjects(heap, objects, gravity, dt, 1),
                      exc |-> "none"],
                     constraints, 1)

\* the enabled FixedPositionConstraints of the list
FixedPositions ==
    { k \in DOMAIN constraints :
        constraints[k].kind = "FixedPosition" /\ constraints[k].enabled }

\* in the heap h the body of constraint c is at the target, at rest
Held(h, c) ==
    /\ h[c.object1].position = c.position
    /\ h[c.object1].velocity = <<0, 0>>

\* in the heap h the collision pass finds body b in collision with no body
\* of the list
NoContact(h, b) ==
    \/ ~collision_detection_enabled
    \/ h[b].no_collision
    \/ \A i \in DOMAIN objects :
          objects[i] # b =>
              h[objects[i]].no_collision \/ ~CheckCollision(h[b], h[objects[i]])

\* every fixed-position body is held in w, the world after the constraint
\* loop, and still in the heap h2 when the collision pass had no contact for it
HeldThrough(w, h2) ==
    \A k \in FixedPositions :
        /\ Held(w.heap, constraints[k])
        /\ NoContact(w.heap, constraints[k].object1) => Held(h2, constraints[k])

C22_GravityAccumulates ==
    is_running =>
        \A i \in DOMAIN objects :
            ~heap[objects[i]].fixed /\ heap[objects[i]].mass > 0 =>
                heap[objects[i]].acceleration =
                    <<since_start * gravity[1], since_start * gravity[2]>>

\* C22: two physics steps after the view started a scene whose box arrived
\* with the acceleration of an earlier run
C22_Witness ==
    /\ lifecycle = "start"
    /\ since_start = 2
    /\ heap[1].kind = "Box" /\ ~heap[1].fixed
    /\ heap[1].acceleration = <<2 * gravity[1], 2 * gravity[2]>>

\* the body b takes impulses: it is not fixed and its mass is positive
Free(b) == ~b.fixed /\ b.mass > 0

\* h2 is what _resolve_collision is to leave of h for the normal n and the
\* relative normal velocity vn: nothing changed when vn > 0, else, with a
\* free body in the pair, a relative normal velocity of -min(e1, e2) * vn
\* (within 0.003, the rounding of the products)
Bounced(h, h2, n, vn) ==
    /\ vn > 0 => h2 = h
    /\ (vn <= 0 /\ (Free(h[1]) \/ Free(h[2]))) =>
          Abs(RelNormalVelocity(h2, n)
                + RDiv((IF h[1].restitution < h[2].restitution
                        THEN h[1].restitution ELSE h[2].restitution) * vn, Scale))
            <= 3

\* C23: _resolve_collision changes no velocity when the relative normal
\* velocity vn is positive, and when vn <= 0 and a body of the pair is free
\* it leaves a relative normal velocity of -min(restitution1, restitution2) * vn
C23_Restitution ==
    [][Resolve =>
          Bounced(heap, heap', GetCollisionNormal(heap[1], heap[2]),
                  RelNormalVelocity(heap, GetCollisionNormal(heap[1], heap[2])))]_vars

\* C23: two free bodies with different restitutions have been resolved and
\* now separate at 0.25 or more along the normal
C23_Witness ==
    /\ op = "resolve"
    /\ heap[1].restitution # heap[2].restitution
    /\ RelNormalVelocity(heap, GetCollisionNormal(heap[1], heap[2])) >= 250
    /\ Free(heap[1]) /\ Free(heap[2])

\* m1 * v1 + m2 * v2 of the two bodies of the heap h, by components
Momentum(h) ==
    <<h[1].mass * h[1].velocity[1] + h[2].mass * h[2].velocity[1],
      h[1].mass * h[1].velocity[2] + h[2].mass * h[2].velocity[2]>>

\* C29: _resolve_collision between two free bodies leaves m1*v1 + m2*v2 as
\* it was (within the rounding of the two velocities: half a unit each,
\* times the mass)
C29_MomentumConserved ==
    [][(Resolve /\ Free(heap[1]) /\ Free(heap[2])) =>
          /\ 2 * Abs(Momentum(heap')[1] - Momentum(heap)[1])
                <= heap[1].mass + heap[2].mass
          /\ 2 * Abs(Momentum(heap')[2] - Momentum(heap)[2])
                <= heap[1].mass + heap[2].mass]_vars

\* C29: two free bodies of different masses have exchanged an impulse
C29_Witness ==
    /\ op = "resolve"
    /\ Free(heap[1]) /\ Free(heap[2])
    /\ heap[1].mass = 3000 /\ heap[2].mass = 1000
    /\ heap[1].velocity[2] < 0 /\ heap[2].velocity[2] > 0

\* the two bodies of h are boxes whose bounding boxes overlap by more than
\* nothing on both axes, and one of them at least is not fixed
PenetratingBoxes(h) ==
    /\ h[1].kind = "Box" /\ h[2].kind = "Box"
    /\ ~(h[1].fixed /\ h[2].fixed)
    /\ GetBoundingBox(h[1])[1] < GetBoundingBox(h[2])[3]
    /\ GetBoundingBox(h[2])[1] < GetBoundingBox(h[1])[3]
    /\ GetBoundingBox(h[1])[2] < GetBoundingBox(h[2])[4]
    /\ GetBoundingBox(h[2])[2] < GetBoundingBox(h[1])[4]

\* the axis (1 for x, 2 for y) on which the boxes box1 and box2 penetrate
\* each other least
LeastAxis(box1, box2) ==
    IF Min2(box2[3] - box1[1], box1[3] - box2[1])
         <= Min2(box2[4] - box1[2], box1[4] - box2[2])
    THEN 1 ELSE 2

\* the boxes box1 and box2 do not overlap on the axis a
ApartOn(box1, box2, a) ==
    box1[a] >= box2[a + 2] \/ box2[a] >= box1[a + 2]

\* C24: one pass over two boxes that penetrate each other, one of them at
\* least not fixed, leaves their bounding boxes without overlap on the axis
\* of least penetration, and the velocities as _resolve_collision left them
C24_BoxesPushedApart ==
    [][(PairPass /\ PenetratingBoxes(heap)) =>
          /\ ApartOn(GetBoundingBox(heap'[1]), GetBoundingBox(heap'[2]),
                     LeastAxis(GetBoundingBox(heap[1]), GetBoundingBox(heap[2])))
          /\ heap'[1].velocity = ResolveCollision(heap, 1, 2)[1].velocity
          /\ heap'[2].velocity = ResolveCollision(heap, 1, 2)[2].velocity]_vars

\* C24: two free boxes of different masses have been pushed apart along the
\* y axis, both of them moved, and the upper one, which was falling, rises
C24_Witness ==
    /\ op = "pass"
    /\ heap[1].kind = "Box" /\ heap[2].kind = "Box"
    /\ ~heap[1].fixed /\ heap[1].mass = 3000
    /\ heap[1].position[1] = 0 /\ heap[1].position[2] < 0
    /\ heap[2].position[1] = 100 /\ heap[2].position[2] > 700
    /\ heap[2].velocity[2] > 0

\* the later of the last start() and the last update() of a running simulator
LastTick == IF started_at # None THEN started_at[1] ELSE last_update_time[1]

\* the dt update() is to return: 0 while stopped, else the wall time since
\* LastTick times time_scale
DueDt == IF is_running THEN RDiv((clock - LastTick) * time_scale, Scale) ELSE 0

Colliding(h, objs) ==
    LET collides(id) == ~h[id].no_collision
    IN  SelectSeq(objs, collides)

\* the world w after a collision pass in which the bodies with the
\* no_collision flag are not there at all
PassWithout(w) ==
    Collide(w, Colliding(w.heap, objects), collision_detection_enabled)

\* C26: in every update() the collision pipeline leaves a body whose
\* no_collision flag is set as the constraint loop left it, and does to the
\* other bodies what it does when that body is not in the list, wherever in
\* the list the body is
C26_NoCollisionInert ==
    [][PhysicsStep => heap' = PassWithout(AfterConstraints(StepDt)).heap]_vars

\* C26: after a step, the second body of the list, flagged no_collision,
\* still overlaps the first, while a collision has pushed another body aside
C26_Witness ==
    /\ op = "update" /\ steps >= 1
    /\ heap[2].no_collision /\ ~heap[1].no_collision /\ ~heap[3].no_collision
    /\ CheckCollision(heap[1], heap[2])
    /\ \E i \in {1, 3} : heap[i].position[1] \notin {0, 300}

\* the constraints of the list that are enabled, in order
EnabledOnly(cs) ==
    LET on(c) == c.enabled
    IN  SelectSeq(cs, on)

\* the world of a physics step of dt over the constraint list cs
StepOver(cs, dt) ==
    Collide(ApplyConstraints(
                [heap |-> IntegrateObjects(heap, objects, gravity, dt, 1),
                 exc |-> "none"],
                cs, 1),
            objects, collision_detection_enabled)

\* the list cs2 is the list cs with the enabled flag of its k-th constraint
\* set to on, every constraint at its place
Switched(cs, cs2, k, on) ==
    /\ Len(cs2) = Len(cs)
    /\ cs2[k].enabled = on
    /\ \A i \in DOMAIN cs :
          [cs2[i] EXCEPT !.enabled = TRUE] = [cs[i] EXCEPT !.enabled = TRUE]
    /\ \A i \in DOMAIN cs : i # k => cs2[i].enabled = cs[i].enabled

\* no FloorConstraint is in the list (constraint.apply() of a tick raises
\* for one, enabled or not)
Tickable == \A i \in DOMAIN constraints : constraints[i].kind # "Floor"

C28_TriangleAtPosition ==
    [][AddTriangleStep =>
          /\ GetBoundingBox(heap'[ret'[1]]) =
                <<args'[1] - RDiv(args'[3], 2), args'[2],
                  args'[1] + RDiv(args'[3], 2), args'[2] + args'[4]>>
          /\ GetObjectAt(heap', objects', args'[1], args'[2] + JustAbove,
                         Len(objects')).found = ret']_vars

\* C28: add_triangle has just created a triangle at a position other than
\* the origin
C28_Witness ==
    /\ op = "add_triangle"
    /\ <<args[1], args[2]>> # <<0, 0>>
    /\ heap[ret[1]].kind = "Triangle"
    /\ heap[ret[1]].position = <<args[1], args[2]>>

\* the pairs (objs[i], objs[j]), i < j, that _handle_collisions goes through
\* are pairs of two different bodies
PairsDistinct(objs) ==
    \A i \in DOMAIN objs : \A j \in (i + 1)..Len(objs) : objs[i] # objs[j]

\* C30: after every add_object, remove_object and clear_objects no body is
\* in the list twice, so the collision pipeline pairs no body with itself,
\* and a body whose remove_object returned True is no longer in the list
C30_ListedOnce ==
    [][/\ PairsDistinct(objects')
       /\ (RemoveStep /\ ret' = True) => ~ListContains(objects', args'[1])]_vars

\* C30: remove_object has returned True for a body that had been added
\* twice
C30_Witness ==
    /\ op = "remove"
    /\ ret = True
    /\ ListContains(objects, args[1])

====
